---------------------------- MODULE Spec2Model ----------------------------
(***************************************************************************)
(* Model of the daily-papers pipeline.                                     *)
(*                                                                         *)
(*   Spec        src/src/summarisation.py: main = list_papers, summarise,  *)
(*               update_readme, run once per invocation, several           *)
(*               invocations in a row on a clock that never goes back.     *)
(*   LegacySpec  src/src/summarise.py: main = load the listing, summarise  *)
(*               loop, update_readme (merge into README), clean up.        *)
(*                                                                         *)
(* Text is a sequence of tokens, each token a string standing for a fixed  *)
(* piece of text; "\n" is one newline character, so that "\n\n" is two     *)
(* tokens and substring search, split and replace see the same overlaps as *)
(* the Python string methods do.                                           *)
(***************************************************************************)
EXTENDS Naturals, Sequences, FiniteSets, TLC

VARIABLES
    pc,           \* position of main
    clock,        \* index of the current day in Calendar (datetime.now())
    runs,         \* invocations of main started so far
    page,         \* the listing page: the "w-full" div blocks, document order
    bi,           \* list_papers: index of the block the for-loop is at
    seen_ids,     \* list_papers: seen_ids
    papers,       \* papers (the list handed from list_papers to the rest)
    idx,          \* summarise: index of the paper the for-loop is at
    summaries,    \* summarise.py main: summaries
    temp_pdf,     \* content of temp.pdf: the arxiv id whose PDF it holds
    sleeps,       \* time.sleep calls made in this run
    attempted,    \* arxiv ids whose processing was started, in order
    failed,       \* indexes of the papers whose processing raised
    calls,        \* summarise_paper calls: paper id and temp.pdf content
    intro,        \* content of templates/README_intro.md
    readme,       \* content of README.md
    archive_md,   \* archive/**.md: path -> content
    archive_json, \* archive/**.json: path -> content
    writes        \* update_readme calls: arguments and files afterwards

vars == <<pc, clock, runs, page, bi, seen_ids, papers, idx, summaries,
          temp_pdf, sleeps, attempted, failed, calls, intro, readme,
          archive_md, archive_json, writes>>

----------------------------------------------------------------------------
(* Bounds *)

\* blocks on a listing page
MaxBlocks == 3
\* invocations of main
MaxRuns == 2
\* papers in the data file read by summarise.py
MaxLegacyPapers == 2
\* calls of the archive writers on one working directory
MaxCalls == 3

----------------------------------------------------------------------------
(* Text as token sequences *)

NL == "\n"
SP == " "

\* s[i..i+Len(t)-1] = t
MatchAt(s, t, i) ==
    /\ i + Len(t) - 1 <= Len(s)
    /\ \A k \in 1..Len(t) : s[i + k - 1] = t[k]

\* str.find + 1: first index at which t occurs in s from index i on, 0 if none
RECURSIVE FindFrom(_, _, _)
FindFrom(s, t, i) ==
    IF i + Len(t) - 1 > Len(s) THEN 0
    ELSE IF MatchAt(s, t, i) THEN i
    ELSE FindFrom(s, t, i + 1)

Find(s, t) == FindFrom(s, t, 1)

Contains(s, t) == Find(s, t) > 0

\* str.split(sep)[0]
SplitFirst(s, sep) ==
    LET i == Find(s, sep) IN IF i = 0 THEN s ELSE SubSeq(s, 1, i - 1)

\* str.split(sep): the pieces between the occurrences of sep
RECURSIVE Split(_, _)
Split(s, sep) ==
    LET i == Find(s, sep) IN
    IF i = 0 THEN <<s>>
    ELSE <<SubSeq(s, 1, i - 1)>> \o Split(SubSeq(s, i + Len(sep), Len(s)), sep)

\* str.replace(old, new): every occurrence, leftmost first, not overlapping;
\* with old empty, new is put before every character and at the end
RECURSIVE Replace(_, _, _)
Replace(s, old, new) ==
    IF old = <<>> THEN
        IF s = <<>> THEN new
        ELSE new \o <<Head(s)>> \o Replace(Tail(s), old, new)
    ELSE
        LET i == Find(s, old) IN
        IF i = 0 THEN s
        ELSE SubSeq(s, 1, i - 1) \o new
                 \o Replace(SubSeq(s, i + Len(old), Len(s)), old, new)

IsSpace(c) == c \in {SP, NL}

\* str.strip()
RECURSIVE LStrip(_)
LStrip(s) == IF s # <<>> /\ IsSpace(Head(s)) THEN LStrip(Tail(s)) ELSE s

RECURSIVE RStrip(_)
RStrip(s) ==
    IF s # <<>> /\ IsSpace(s[Len(s)]) THEN RStrip(SubSeq(s, 1, Len(s) - 1)) ELSE s

Strip(s) == RStrip(LStrip(s))

\* sep.join(parts)
RECURSIVE Join(_, _)
Join(parts, sep) ==
    IF parts = <<>> THEN <<>>
    ELSE IF Len(parts) = 1 THEN parts[1]
    ELSE parts[1] \o sep \o Join(Tail(parts), sep)

RECURSIVE Flatten(_)
Flatten(ss) == IF ss = <<>> THEN <<>> ELSE Head(ss) \o Flatten(Tail(ss))

\* all sequences over S of length at most n
SeqUpTo(S, n) == UNION {[1..k -> S] : k \in 0..n}

----------------------------------------------------------------------------
(* Calendar *)

\* datetime.now().strftime("%Y-%m-%d") on consecutive readings of the clock
Calendar ==
    << <<"2024", "-", "12", "-", "01">>,
       <<"2024", "-", "12", "-", "02">>,
       <<"2025", "-", "01", "-", "01">> >>

strftime(c) == Calendar[c]

Dates == {Calendar[c] : c \in 1..Len(Calendar)}


----------------------------------------------------------------------------
(* The listing page *)

PAPERS == "/papers/"

Digits == {"1", "2", "3"}

\* number of consecutive digits of s from index i on
RECURSIVE DigitRun(_, _)
DigitRun(s, i) ==
    IF i <= Len(s) /\ s[i] \in Digits THEN 1 + DigitRun(s, i + 1) ELSE 0

\* whether r"/papers/(\d+\.\d+)" matches at index i of link
MatchesAt(link, i) ==
    LET n1 == DigitRun(link, i + 1) IN
    /\ link[i] = PAPERS
    /\ n1 >= 1
    /\ i + 1 + n1 <= Len(link)
    /\ link[i + 1 + n1] = "."
    /\ DigitRun(link, i + 2 + n1) >= 1

\* group(1) of the match at index i
GroupAt(link, i) ==
    LET n1 == DigitRun(link, i + 1)
        n2 == DigitRun(link, i + 2 + n1)
    IN  SubSeq(link, i + 1, i + 1 + n1 + n2)

\* re.search(r"/papers/(\d+\.\d+)", link): the leftmost match, <<>> for None
re_search(link) ==
    LET hits == {i \in 1..Len(link) : MatchesAt(link, i)} IN
    IF hits = {} THEN <<>>
    ELSE <<GroupAt(link, CHOOSE i \in hits : \A j \in hits : i <= j)>>

\* title_tag.text.strip(), then " ".join(x.strip() for x in title.split("\n"))
NormaliseTitle(text) ==
    LET parts == Split(Strip(text), <<NL>>) IN
    Join([k \in 1..Len(parts) |-> Strip(parts[k])], <<SP>>)

\* the li elements' title attributes that are set and not empty
RECURSIVE Authors(_)
Authors(lis) ==
    IF lis = <<>> THEN <<>>
    ELSE IF Head(lis) = <<>> THEN Authors(Tail(lis))
    ELSE <<Head(lis)>> \o Authors(Tail(lis))

\* the record list_papers appends
PaperRecord(block, arxiv_id) ==
    [title    |-> NormaliseTitle(block.text),
     authors  |-> Join(Authors(block.lis), <<", ">>),
     arxiv_id |-> arxiv_id,
     link     |-> <<"https://arxiv.org/abs/">> \o arxiv_id]

\* a div block: whether it holds an <a class="line-clamp-3">, the text and
\* the href of that element (has_href FALSE: the attribute is missing), and
\* the title attribute of each li (<<>>: missing or empty)
Block(has_title, text, has_href, href, lis) ==
    [has_title |-> has_title, text |-> text,
     has_href |-> has_href, href |-> href, lis |-> lis]

Blocks ==
    { Block(FALSE, <<>>, FALSE, <<>>, <<>>),
      Block(TRUE, <<"A">>, FALSE, <<>>, <<>>),
      Block(TRUE, <<"A">>, TRUE, <<PAPERS, "1", "x">>, <<>>),
      Block(TRUE, <<"A">>, TRUE, <<PAPERS, "1", ".", "2">>, << <<"Ann">> >>),
      Block(TRUE, <<NL, SP, "A", SP, NL, SP, "bis", NL>>, TRUE,
            <<"x", PAPERS, ".", PAPERS, "1", ".", "2", "x">>,
            << <<>>, <<"Bob">>, <<"Cy">> >>),
      Block(TRUE, <<"B">>, TRUE, <<PAPERS, "1", ".", "2", "3">>, <<>>) }

Pages == SeqUpTo(Blocks, MaxBlocks)

----------------------------------------------------------------------------
(* summarisation.py: list_papers, one action per way through the loop body *)

ListVars == <<page, bi, seen_ids, papers>>
LoopVars == <<idx, summaries, temp_pdf, sleeps, attempted, failed, calls>>
FileVars == <<intro, readme, archive_md, archive_json, writes>>

\* main: today_date is read, list_papers fetches the page
StartRun ==
    /\ pc = "start"
    /\ runs' = runs + 1
    /\ clock' = clock
    /\ \E pg \in Pages : page' = pg
    /\ bi' = 1
    /\ seen_ids' = {}
    /\ papers' = <<>>
    /\ pc' = "list"
    /\ UNCHANGED <<LoopVars, FileVars>>

\* no title element: warning, continue
ListNoTitle ==
    /\ pc = "list" /\ bi <= Len(page)
    /\ ~page[bi].has_title
    /\ bi' = bi + 1
    /\ UNCHANGED <<pc, clock, runs, page, seen_ids, papers, LoopVars, FileVars>>

\* title_tag["href"] on an element without href: KeyError leaves list_papers
\* and main
ListNoHref ==
    /\ pc = "list" /\ bi <= Len(page)
    /\ page[bi].has_title /\ ~page[bi].has_href
    /\ pc' = "crashed_list"
    /\ UNCHANGED <<clock, runs, ListVars, LoopVars, FileVars>>

\* the link does not match: warning, continue
ListNoId ==
    /\ pc = "list" /\ bi <= Len(page)
    /\ page[bi].has_title /\ page[bi].has_href
    /\ re_search(page[bi].href) = <<>>
    /\ bi' = bi + 1
    /\ UNCHANGED <<pc, clock, runs, page, seen_ids, papers, LoopVars, FileVars>>

\* mutant: the seen-set is never consulted
IsDuplicate_Unchecked(arxiv_id, seen) == FALSE

\* whether list_papers skips a block whose id is arxiv_id
IsDuplicate(arxiv_id, seen) == arxiv_id \in seen

\* the id was seen: warning, continue
ListDuplicate ==
    /\ pc = "list" /\ bi <= Len(page)
    /\ page[bi].has_title /\ page[bi].has_href
    /\ re_search(page[bi].href) # <<>>
    /\ IsDuplicate(re_search(page[bi].href)[1], seen_ids)
    /\ bi' = bi + 1
    /\ UNCHANGED <<pc, clock, runs, page, seen_ids, papers, LoopVars, FileVars>>

\* a new id: seen_ids.add, papers.append
ListEmit ==
    /\ pc = "list" /\ bi <= Len(page)
    /\ page[bi].has_title /\ page[bi].has_href
    /\ re_search(page[bi].href) # <<>>
    /\ LET arxiv_id == re_search(page[bi].href)[1] IN
        /\ ~IsDuplicate(arxiv_id, seen_ids)
        /\ seen_ids' = seen_ids \cup {arxiv_id}
        /\ papers' = Append(papers, PaperRecord(page[bi], arxiv_id))
    /\ bi' = bi + 1
    /\ UNCHANGED <<pc, clock, runs, page, LoopVars, FileVars>>

\* return papers (the locals of list_papers are gone); main calls summarise,
\* which starts its loop
ListReturn ==
    /\ pc = "list" /\ bi > Len(page)
    /\ pc' = "summarise"
    /\ idx' = 1
    /\ sleeps' = 0
    /\ attempted' = <<>>
    /\ failed' = {}
    /\ calls' = <<>>
    /\ page' = <<>>
    /\ bi' = 1
    /\ seen_ids' = {}
    /\ UNCHANGED <<clock, runs, papers, summaries, temp_pdf, FileVars>>


----------------------------------------------------------------------------
(* summarisation.py: download_arxiv, summarise_paper, the summarise loop *)

NoFile == <<"<no file>">>

\* HTTP status codes of the PDF download
Statuses == {"200", "404"}

\* mutant: a status other than 200 is not raised, the file is left as it was
download_arxiv_NoRaise(arxiv_id, status, file) ==
    IF status = "200"
    THEN [raised |-> FALSE, file |-> arxiv_id]
    ELSE [raised |-> FALSE, file |-> file]

\* download_arxiv(arxiv_id, save_path): the file afterwards, and whether
\* ValueError is raised
download_arxiv(arxiv_id, status, file) ==
    IF status = "200"
    THEN [raised |-> FALSE, file |-> arxiv_id]
    ELSE [raised |-> TRUE, file |-> file]

\* JSON values as json.loads returns them: a dict, a list, None
Obj(f) == [kind |-> "object", obj |-> f, items |-> <<>>]
Arr(items) == [kind |-> "array", obj |-> [none |-> <<>>], items |-> items]
Null == [kind |-> "null", obj |-> [none |-> <<>>], items |-> <<>>]

Fallback == Obj([category |-> <<>>, summary |-> <<>>])

\* response.text: None, or a text that is JSON for value, or no JSON at all
Text(is_none, is_json, value) ==
    [is_none |-> is_none, is_json |-> is_json, value |-> value]

ResponseTexts ==
    { Text(TRUE, FALSE, Null),
      Text(FALSE, FALSE, Null),
      Text(FALSE, TRUE, Obj([category |-> <<"ML">>, summary |-> <<"S", NL, "T">>])),
      Text(FALSE, TRUE, Obj([foo |-> <<"x">>])),
      Text(FALSE, TRUE, Arr(<<"1">>)),
      Text(FALSE, TRUE, Null) }

\* json.loads(text): TypeError on None, JSONDecodeError on text that is no JSON
json_loads(text) ==
    IF text.is_none \/ ~text.is_json
    THEN [raised |-> TRUE, value |-> Null]
    ELSE [raised |-> FALSE, value |-> text.value]

\* what generate_content does: raise, or return a response
ServiceOutcomes ==
    {[raises |-> TRUE, text |-> Text(TRUE, FALSE, Null)]}
        \cup {[raises |-> FALSE, text |-> t] : t \in ResponseTexts}

\* summarise_paper(prompt, pdf_path)
summarise_paper(svc) ==
    IF svc.raises THEN [raised |-> TRUE, value |-> Null]
    ELSE LET r == json_loads(svc.text) IN
         IF r.raised THEN [raised |-> FALSE, value |-> Fallback]
         ELSE [raised |-> FALSE, value |-> r.value]

\* paper.update(res): dict.update of a dict; of a list, whose elements must be
\* key/value pairs; of None
dict_update(paper, res) ==
    IF res.kind = "object" THEN [raised |-> FALSE, dict |-> res.obj @@ paper]
    ELSE IF res.kind = "array" /\ res.items = <<>>
    THEN [raised |-> FALSE, dict |-> paper]
    ELSE [raised |-> TRUE, dict |-> paper]

\* mutant: "except ValueError" in place of "except Exception"
Caught_ValueErrorOnly(exc) == exc = "ValueError"

\* whether the except clause of the loop body catches exception exc
Caught(exc) == exc \in {"ValueError", "TemplateError", "APIError", "TypeError"}

\* one pass through the body of "for paper in papers" in summarise
IterationResult(paper, file, status, render_ok, svc) ==
    LET dl == download_arxiv(paper.arxiv_id, status, file)
        sp == summarise_paper(svc)
        up == dict_update(paper, sp.value)
        call == [paper |-> paper.arxiv_id, pdf |-> dl.file, svc |-> svc, ret |-> sp]
        Out(exc, p, called, slept) ==
            [exc |-> exc, paper |-> p, file |-> dl.file,
             calls |-> IF called THEN <<call>> ELSE <<>>,
             sleeps |-> IF slept THEN 1 ELSE 0]
    IN  IF dl.raised THEN Out("ValueError", paper, FALSE, FALSE)
        ELSE IF ~render_ok THEN Out("TemplateError", paper, FALSE, FALSE)
        ELSE IF sp.raised THEN Out("APIError", paper, TRUE, FALSE)
        ELSE IF up.raised THEN Out("TypeError", paper, TRUE, FALSE)
        ELSE Out("none", up.dict, TRUE, TRUE)

SummariseIteration ==
    /\ pc = "summarise" /\ idx <= Len(papers)
    /\ \E status \in Statuses, render_ok \in BOOLEAN, svc \in ServiceOutcomes :
        LET r == IterationResult(papers[idx], temp_pdf, status, render_ok, svc) IN
        /\ temp_pdf' = r.file
        /\ calls' = calls \o r.calls
        /\ sleeps' = sleeps + r.sleeps
        /\ papers' = [papers EXCEPT ![idx] = r.paper]
        /\ attempted' = Append(attempted, papers[idx].arxiv_id)
        /\ failed' = IF r.exc = "none" THEN failed ELSE failed \cup {<<idx, r.exc>>}
        /\ pc' = IF r.exc = "none" \/ Caught(r.exc) THEN pc ELSE "crashed_summarise"
    /\ idx' = idx + 1
    /\ UNCHANGED <<clock, runs, page, bi, seen_ids, summaries, FileVars>>

\* the loop is over: summarise returns, main calls update_readme
SummariseReturn ==
    /\ pc = "summarise" /\ idx > Len(papers)
    /\ pc' = "update"
    /\ UNCHANGED <<clock, runs, ListVars, LoopVars, FileVars>>

----------------------------------------------------------------------------
(* summarisation.py: update_readme *)

EmptyDir == [p \in {} |-> <<>>]

\* {{ paper.key }}: the value, the empty string for a key the record lacks
Field(paper, key) == IF key \in DOMAIN paper THEN paper[key] ELSE <<>>

\* the part of the rendered template that shows one paper
RenderPaper(paper) ==
    <<"<paper ">> \o paper.title \o <<" | ">> \o paper.link \o <<" | ">>
        \o paper.authors \o <<" | ">> \o Field(paper, "category") \o <<" | ">>
        \o Field(paper, "summary") \o <<">", NL>>

\* output_template.render(today_date=..., papers=...): a function of the date
\* and the records alone
Render(today_date, ps) ==
    <<"<digest ">> \o today_date \o <<">", NL>>
        \o Flatten([k \in 1..Len(ps) |-> RenderPaper(ps[k])])

\* mutant: the file is named after the month, not the date
archive_path_ByMonth(today_date, ext) ==
    LET parts == Split(today_date, <<"-">>) IN
    <<"archive", "/">> \o parts[1] \o <<"/">> \o parts[2] \o <<ext>>

\* f"archive/{year}/{month}/{today_date}{ext}", year and month from
\* today_date.split("-")
archive_path(today_date, ext) ==
    LET parts == Split(today_date, <<"-">>) IN
    <<"archive", "/">> \o parts[1] \o <<"/">> \o parts[2] \o <<"/">>
        \o today_date \o <<ext>>

\* update_readme(today_date, papers): the files afterwards
update_readme(today_date, ps, md, js) ==
    LET output == Render(today_date, ps) IN
    [readme |-> output,
     md     |-> (archive_path(today_date, ".md") :> output) @@ md,
     js     |-> (archive_path(today_date, ".json") :> ps) @@ js,
     doc    |-> output]

UpdateReadme ==
    /\ pc = "update"
    /\ LET w == update_readme(strftime(clock), papers, archive_md, archive_json) IN
        /\ readme' = w.readme
        /\ archive_md' = w.md
        /\ archive_json' = w.js
        /\ writes' = Append(writes, [writer |-> "summarisation", date |-> strftime(clock),
                                     papers |-> papers, doc |-> w.doc, readme |-> w.readme])
    /\ pc' = "done"
    /\ UNCHANGED <<clock, runs, ListVars, LoopVars, intro>>

----------------------------------------------------------------------------
(* One invocation of summarisation.py *)

Ids == {<<"1", ".", "2">>, <<"1", ".", "2", "3">>}

Init ==
    /\ pc = "start"
    /\ clock \in 1..Len(Calendar)
    /\ runs = 0
    /\ page = <<>>
    /\ bi = 1
    /\ seen_ids = {}
    /\ papers = <<>>
    /\ idx = 1
    /\ summaries = <<>>
    /\ temp_pdf \in {NoFile} \cup Ids
    /\ sleeps = 0
    /\ attempted = <<>>
    /\ failed = {}
    /\ calls = <<>>
    /\ intro = <<>>
    /\ readme = <<>>
    /\ archive_md = EmptyDir
    /\ archive_json = EmptyDir
    /\ writes = <<>>

Next ==
    \/ StartRun
    \/ ListNoTitle
    \/ ListNoHref
    \/ ListNoId
    \/ ListDuplicate
    \/ ListEmit
    \/ ListReturn
    \/ SummariseIteration
    \/ SummariseReturn
    \/ UpdateReadme

Spec == Init /\ [][Next]_vars


----------------------------------------------------------------------------
(* summarise.py: summarise_paper, update_readme *)

HDR == "## Papers for"
DATE == "{DATE}"

\* the keys update_readme reads of every record
RowKeys == {"title", "link", "authors", "category", "summary"}

\* summarise_paper(title, pdf_path)
legacy_summarise_paper(svc) ==
    IF svc.raises THEN [raised |-> TRUE, value |-> Null]
    ELSE LET r == json_loads(svc.text) IN
         IF r.raised THEN [raised |-> FALSE, value |-> Fallback]
         ELSE [raised |-> FALSE, value |-> r.value]

\* {**paper, **summary}: TypeError unless summary is a mapping
dict_merge(paper, summary) ==
    IF summary.kind = "object"
    THEN [raised |-> FALSE, dict |-> summary.obj @@ paper]
    ELSE [raised |-> TRUE, dict |-> paper]

\* the table row of record r
Row(r) ==
    <<"| ">> \o r.title \o <<" (Read more on [arXiv](">> \o r.link \o <<")| ">>
        \o r.authors \o <<" | ">> \o r.category \o <<" | ">>
        \o Replace(r.summary, <<NL>>, <<SP>>) \o <<" |", NL>>

\* new_content of update_readme
NewContent(date_str, result) ==
    <<NL, NL, HDR, SP>> \o date_str \o <<NL, NL>>
        \o <<"| Title | Authors | Category | Summary |", NL>>
        \o <<"| ----- | ------- | -------- | ------- |", NL>>
        \o Flatten([k \in 1..Len(result) |-> Row(result[k])])

\* f"archive/{year}/{month}/{day}.md"
legacy_archive_path(date_str) ==
    LET parts == Split(date_str, <<"-">>) IN
    <<"archive", "/">> \o parts[1] \o <<"/">> \o parts[2] \o <<"/">>
        \o parts[3] \o <<".md">>

\* existing_content with the header above the first "## Papers for" removed:
\* split(...)[0], then replace(front_content, "")
RemoveHeader(existing_content) ==
    Replace(existing_content, SplitFirst(existing_content, <<HDR>>), <<>>)

\* update_readme(result): KeyError when a record lacks a key, before any file
\* is written; otherwise the files afterwards
legacy_update_readme(date_str, result, old_readme, intro_template, md) ==
    IF \E k \in 1..Len(result) : ~(RowKeys \subseteq DOMAIN result[k])
    THEN [raised |-> TRUE, readme |-> old_readme, md |-> md, doc |-> <<>>]
    ELSE
        LET new_content == NewContent(date_str, result)
            date_str_readme == Replace(date_str, <<"-">>, <<"-", "-">>)
            intro_content == Replace(intro_template, <<DATE>>,
                                     date_str_readme \o <<SP, NL, SP, NL>>)
            existing_content == RemoveHeader(old_readme)
        IN  [raised |-> FALSE,
             readme |-> intro_content \o new_content \o <<NL, NL>> \o existing_content,
             md     |-> (legacy_archive_path(date_str) :> new_content) @@ md,
             doc    |-> new_content]

----------------------------------------------------------------------------
(* summarise.py: main, invoked MaxRuns times *)

\* records of data/{date}_papers.json
DataPaper(title, arxiv_id) ==
    [title |-> title, authors |-> <<"Ann">>,
     link |-> <<"https://arxiv.org/abs/">> \o arxiv_id,
     pdf_path |-> <<"temp_pdfs/">> \o arxiv_id \o <<".pdf">>]

DataPapers ==
    { DataPaper(<<"A">>, <<"1", ".", "2">>),
      DataPaper(<<"B">>, <<"1", ".", "2", "3">>) }

LegacyOutcomes ==
    {[raises |-> TRUE, text |-> Text(TRUE, FALSE, Null)]}
        \cup {[raises |-> FALSE, text |-> t] : t \in
                { Text(FALSE, FALSE, Null),
                  Text(FALSE, TRUE, Obj([category |-> <<"ML">>,
                                         summary |-> <<"S", NL, "T">>])),
                  Text(FALSE, TRUE, Obj([foo |-> <<"x">>])),
                  Text(FALSE, TRUE, Null) }}

\* main: the date is read and the listing of the day loaded
LegacyStart ==
    /\ pc \in {"start", "done", "crashed_update"}
    /\ runs < MaxRuns
    /\ runs' = runs + 1
    /\ \E c \in clock..Len(Calendar) : clock' = c
    /\ \E ps \in SeqUpTo(DataPapers, MaxLegacyPapers) : papers' = ps
    /\ summaries' = <<>>
    /\ idx' = 1
    /\ sleeps' = 0
    /\ attempted' = <<>>
    /\ failed' = {}
    /\ pc' = "legacy_loop"
    /\ UNCHANGED <<page, bi, seen_ids, temp_pdf, calls, FileVars>>

\* one pass through the body of "for paper in papers" in main
LegacyIteration ==
    /\ pc = "legacy_loop" /\ idx <= Len(papers)
    /\ \E svc \in LegacyOutcomes :
        LET sp == legacy_summarise_paper(svc)
            mg == dict_merge(papers[idx], sp.value)
        IN  IF sp.raised \/ mg.raised
            THEN /\ failed' = failed \cup
                        {<<idx, IF sp.raised THEN "APIError" ELSE "TypeError">>}
                 /\ UNCHANGED <<summaries, sleeps>>
            ELSE /\ summaries' = Append(summaries, mg.dict)
                 /\ sleeps' = sleeps + 1
                 /\ UNCHANGED failed
    /\ attempted' = Append(attempted, papers[idx].link)
    /\ idx' = idx + 1
    /\ UNCHANGED <<pc, clock, runs, ListVars, temp_pdf, calls, FileVars>>

\* update_readme(summaries), then the temporary directory is recreated
LegacyUpdateReadme ==
    /\ pc = "legacy_loop" /\ idx > Len(papers)
    /\ LET w == legacy_update_readme(strftime(clock), summaries, readme, intro,
                                     archive_md)
       IN  /\ readme' = w.readme
           /\ archive_md' = w.md
           /\ pc' = IF w.raised THEN "crashed_update" ELSE "done"
           /\ writes' = IF w.raised THEN writes
                        ELSE Append(writes, [writer |-> "summarise",
                                             date |-> strftime(clock),
                                             papers |-> summaries,
                                             doc |-> w.doc, readme |-> w.readme])
    /\ UNCHANGED <<clock, runs, ListVars, LoopVars, intro, archive_json>>

IntroTemplates == {<<>>, <<"# Daily papers", NL, "Last updated ", DATE>>}

LegacyInit ==
    /\ pc = "start"
    /\ clock = 1
    /\ runs = 0
    /\ page = <<>>
    /\ bi = 1
    /\ seen_ids = {}
    /\ papers = <<>>
    /\ idx = 1
    /\ summaries = <<>>
    /\ temp_pdf = NoFile
    /\ sleeps = 0
    /\ attempted = <<>>
    /\ failed = {}
    /\ calls = <<>>
    /\ intro \in IntroTemplates
    /\ readme = intro
    /\ archive_md = EmptyDir
    /\ archive_json = EmptyDir
    /\ writes = <<>>

LegacyNext ==
    \/ LegacyStart
    \/ LegacyIteration
    \/ LegacyUpdateReadme

LegacySpec == LegacyInit /\ [][LegacyNext]_vars


----------------------------------------------------------------------------
(* The two archive writers called in any order on one working directory *)

\* send_to_telegram.py main: the snapshot it opens for today_date
snapshot_path(today_date) ==
    LET parts == Split(today_date, <<"-">>) IN
    <<"archive", "/">> \o parts[1] \o <<"/">> \o parts[2] \o <<"/">>
        \o today_date \o <<".json">>

BareA ==
    PaperRecord(Block(TRUE, <<"A">>, TRUE, <<PAPERS, "1", ".", "2">>, << <<"Ann">> >>),
                <<"1", ".", "2">>)

Enriched == Obj([category |-> <<"ML">>, summary |-> <<"S", NL, "T">>])

\* lists main hands to update_readme of summarisation.py
SamplePapers ==
    { <<>>, <<BareA>>, <<dict_update(BareA, Enriched).dict>> }

\* lists main hands to update_readme of summarise.py
SampleSummaries ==
    { <<>>,
      <<dict_merge(DataPaper(<<"A">>, <<"1", ".", "2">>), Enriched).dict>> }

CallUpdateReadme ==
    /\ runs < MaxCalls
    /\ runs' = runs + 1
    /\ \E c \in clock..Len(Calendar), ps \in SamplePapers :
        LET w == update_readme(strftime(c), ps, archive_md, archive_json) IN
        /\ clock' = c
        /\ readme' = w.readme
        /\ archive_md' = w.md
        /\ archive_json' = w.js
        /\ writes' = Append(writes, [writer |-> "summarisation", date |-> strftime(c),
                                     papers |-> ps, doc |-> w.doc, readme |-> w.readme])
    /\ UNCHANGED <<pc, ListVars, LoopVars, intro>>

CallLegacyUpdateReadme ==
    /\ runs < MaxCalls
    /\ runs' = runs + 1
    /\ \E c \in clock..Len(Calendar), ps \in SampleSummaries :
        LET w == legacy_update_readme(strftime(c), ps, readme, intro, archive_md) IN
        /\ clock' = c
        /\ readme' = w.readme
        /\ archive_md' = w.md
        /\ writes' = Append(writes, [writer |-> "summarise", date |-> strftime(c),
                                     papers |-> ps, doc |-> w.doc, readme |-> w.readme])
    /\ UNCHANGED <<pc, ListVars, LoopVars, intro, archive_json>>

ArchiveNext ==
    \/ CallUpdateReadme
    \/ CallLegacyUpdateReadme

ArchiveSpec == LegacyInit /\ [][ArchiveNext]_vars


----------------------------------------------------------------------------
(* Claims *)

IdsOf(ps) == [k \in 1..Len(ps) |-> ps[k].arxiv_id]

HasBlank(r, key) == key \in DOMAIN r /\ r[key] = <<>>

\* C1: a paper whose processing raised is present in the written snapshot
\* and digest, with category and summary both the empty string.
C1_FailedPaperArchivedBlank ==
    pc = "done" =>
        \A f \in failed :
            LET id == papers[f[1]].arxiv_id
                path == snapshot_path(strftime(clock))
            IN  /\ path \in DOMAIN archive_json
                /\ \E k \in DOMAIN archive_json[path] :
                    LET r == archive_json[path][k] IN
                    /\ r.arxiv_id = id
                    /\ HasBlank(r, "category")
                    /\ HasBlank(r, "summary")
                    /\ Contains(readme, RenderPaper(r))

\* C2: one pacing sleep follows the processing of every paper, failed or not.
C2_SleepAfterEveryPaper ==
    pc \in {"summarise", "update", "done"} => sleeps = Len(attempted)

DateIndex(d) == CHOOSE c \in 1..Len(Calendar) : Calendar[c] = d

\* C3: merge law: once the digest holds the entry of date D1, writing the
\* entry of a later date D2 leaves D1's entry text in the digest unchanged,
\* after D2's entry.
C3_MergeLaw ==
    \A i, n \in DOMAIN writes :
        ( /\ n = Len(writes) /\ i < n
          /\ DateIndex(writes[i].date) < DateIndex(writes[n].date)
          /\ Contains(writes[n - 1].readme, writes[i].doc) )
        => /\ Contains(readme, writes[n].doc)
           /\ Contains(readme, writes[i].doc)
           /\ Find(readme, writes[n].doc) < Find(readme, writes[i].doc)

\* C4: update_readme called twice in a row for the same date with the same
\* records leaves the digest and the dated archive document as they were
\* after the first call.
C4_WriterIdempotent ==
    \A i \in DOMAIN writes :
        ( /\ i + 1 <= Len(writes)
          /\ writes[i].writer = writes[i + 1].writer
          /\ writes[i].date = writes[i + 1].date
          /\ writes[i].papers = writes[i + 1].papers )
        => /\ writes[i + 1].readme = writes[i].readme
           /\ writes[i + 1].doc = writes[i].doc

\* the id list_papers reads from block b, <<>> for a block it cannot read
BlockId(b) ==
    IF b.has_title /\ b.has_href THEN re_search(b.href) ELSE <<>>

\* C5: the records list_papers emits have pairwise distinct arxiv_id values,
\* and the record kept for an id is that of the first block carrying it.
C5_DistinctIds ==
    /\ \A i, j \in DOMAIN papers :
        i # j => papers[i].arxiv_id # papers[j].arxiv_id
    /\ pc = "list" =>
        \A k \in DOMAIN papers :
            \E b \in 1..(bi - 1) :
                /\ BlockId(page[b]) = <<papers[k].arxiv_id>>
                /\ papers[k] = PaperRecord(page[b], papers[k].arxiv_id)
                /\ \A b2 \in 1..(b - 1) : BlockId(page[b2]) # BlockId(page[b])

C5_Witness ==
    /\ pc = "list" /\ Len(papers) >= 1
    /\ \E b1, b2 \in 1..(bi - 1) :
        /\ b1 < b2
        /\ BlockId(page[b1]) # <<>>
        /\ BlockId(page[b1]) = BlockId(page[b2])
        /\ page[b1] # page[b2]

IsTwoField(text) ==
    /\ ~text.is_none /\ text.is_json
    /\ text.value.kind = "object"
    /\ DOMAIN text.value.obj = {"category", "summary"}

\* C6: for every response text summarise_paper returns a mapping whose keys
\* are exactly category and summary, the fallback when the text is not that
\* structure, and no exception out of the text reaches the loop.
C6_ResultIsTwoField ==
    /\ \A k \in DOMAIN calls :
        ~calls[k].svc.raises =>
            /\ ~calls[k].ret.raised
            /\ calls[k].ret.value.kind = "object"
            /\ DOMAIN calls[k].ret.value.obj = {"category", "summary"}
            /\ ~IsTwoField(calls[k].svc.text) => calls[k].ret.value = Fallback
    /\ \A f \in failed : f[2] # "TypeError"

\* C7: whatever fails, the loop attempts every paper once, in list order,
\* and the run reaches update_readme, which is handed every paper.
C7_EveryPaperAttempted ==
    /\ pc # "crashed_summarise"
    /\ pc = "summarise" =>
        /\ idx = Len(attempted) + 1
        /\ idx <= Len(papers) + 1
        /\ attempted = IdsOf(SubSeq(papers, 1, idx - 1))
        /\ ENABLED (SummariseIteration \/ SummariseReturn)
    /\ pc \in {"update", "done"} => attempted = IdsOf(papers)
    /\ pc = "update" => ENABLED UpdateReadme
    /\ pc = "done" =>
        /\ Len(writes) = 1
        /\ IdsOf(writes[1].papers) = attempted

C7_Witness ==
    /\ pc = "done" /\ Len(papers) = 2
    /\ \E e1, e2 \in {"ValueError", "TemplateError", "APIError", "TypeError"} :
        /\ e1 # e2
        /\ failed = {<<1, e1>>, <<2, e2>>}

RECURSIVE ExpectedIds(_, _)
\* the ids of the well-formed blocks of pg, first occurrences, document order
ExpectedIds(pg, seen) ==
    IF pg = <<>> THEN <<>>
    ELSE LET id == BlockId(Head(pg)) IN
         IF id = <<>> \/ id[1] \in seen THEN ExpectedIds(Tail(pg), seen)
         ELSE id \o ExpectedIds(Tail(pg), seen \cup {id[1]})

\* C8: a block without title element, without link target or without id in
\* its link yields no record and no exception, and the blocks after it are
\* emitted in document order.
C8_MalformedBlocksSkipped ==
    /\ pc # "crashed_list"
    /\ pc = "list" => IdsOf(papers) = ExpectedIds(SubSeq(page, 1, bi - 1), {})

IsLastWrite(i) ==
    \A j \in DOMAIN writes :
        (j > i /\ writes[j].writer = writes[i].writer) => writes[j].date # writes[i].date

\* C10: a writer run for date D leaves the archive document and snapshot of
\* every other date as they were: each date written keeps the document and
\* snapshot of its own last run, in a file of its own.
C10_OtherDatesUntouched ==
    /\ \A i \in DOMAIN writes :
        IsLastWrite(i) =>
            IF writes[i].writer = "summarisation"
            THEN /\ archive_path(writes[i].date, ".md") \in DOMAIN archive_md
                 /\ archive_md[archive_path(writes[i].date, ".md")] = writes[i].doc
                 /\ snapshot_path(writes[i].date) \in DOMAIN archive_json
                 /\ archive_json[snapshot_path(writes[i].date)] = writes[i].papers
            ELSE /\ legacy_archive_path(writes[i].date) \in DOMAIN archive_md
                 /\ archive_md[legacy_archive_path(writes[i].date)] = writes[i].doc
    /\ Cardinality(DOMAIN archive_md)
         = Cardinality({<<writes[i].writer, writes[i].date>> : i \in DOMAIN writes})
    /\ Cardinality(DOMAIN archive_json)
         = Cardinality({writes[i].date : i \in
                          {j \in DOMAIN writes : writes[j].writer = "summarisation"}})

C10_Witness ==
    /\ \E i, j \in DOMAIN writes :
        /\ i < j
        /\ writes[i].writer = "summarisation" /\ writes[j].writer = "summarisation"
        /\ writes[i].date # writes[j].date
        /\ Split(writes[i].date, <<"-">>)[2] = Split(writes[j].date, <<"-">>)[2]
        /\ writes[i].papers # writes[j].papers
        /\ archive_json[snapshot_path(writes[i].date)] = writes[i].papers
        /\ archive_json[snapshot_path(writes[j].date)] = writes[j].papers
    /\ \E k \in DOMAIN writes : writes[k].writer = "summarise"

============================================================================
